---- MODULE Spec2Model ----
(***************************************************************************)
(* A model of the TODO notification daemon of src/daemon.py.               *)
(*                                                                         *)
(* A document is a sequence of lines and a line is a sequence of tokens:   *)
(* the literal "TODO:", a well-formed "@due(dddd-dd-dd)" marker carrying   *)
(* its eight digits, a whitespace character, or another character.  A      *)
(* description is the sequence of tokens the regular expression captures.  *)
(* External tools (notify-send, task) are the environment: each call       *)
(* draws its outcome nondeterministically and is recorded in `calls`.      *)
(***************************************************************************)
EXTENDS Integers, Sequences, FiniteSets, Bags, TLC

VARIABLES
    once,       \* the process makes one call and ends (main with --once)
    entry,      \* the function the process was entered by
    md_files,   \* the documents find_markdown_files returns, in order
    clock,      \* the wall clock datetime.now() reads
    pc,         \* position of the daemon in run_daemon / check_due_tasks
    at,         \* where an interrupt arrived: a position, or "handler"
    all_todos,  \* check_due_tasks: records collected this cycle
    overdue,    \* check_due_tasks: the overdue bucket
    due_soon,   \* check_due_tasks: the due-soon bucket
    idx,        \* index of the running for-loop (notification or sync)
    synced,     \* sync_to_taskwarrior: count of tasks created
    tasks,      \* descriptions the external tracker holds
    calls,      \* external commands run in the current loop iteration
    log         \* bag of the start-up lines and the current iteration's lines

vars == <<once, entry, md_files, clock, pc, at, all_todos, overdue, due_soon, idx,
          synced, tasks, calls, log>>

(***************************************************************************)
(* Bounds of the model.                                                    *)
(***************************************************************************)
MaxDocTokens == 5   \* tokens per document in the extractor's universe
MaxFiles == 2       \* documents per locate pass in the daemon's universe

(***************************************************************************)
(* Program constants.                                                      *)
(***************************************************************************)
EveningHour == 18
SecondsPerDay == 24 * 3600

(***************************************************************************)
(* Generic helpers.                                                        *)
(***************************************************************************)
SeqsUpTo(S, n) == UNION {[1..k -> S] : k \in 0..n}

SetMin(S) == CHOOSE x \in S : \A y \in S : x <= y

RECURSIVE Flatten(_)
Flatten(ss) == IF ss = <<>> THEN <<>> ELSE Head(ss) \o Flatten(Tail(ss))

(***************************************************************************)
(* Tokens, lines and documents.                                            *)
(***************************************************************************)
Digits(y, m, d) ==
    <<(y \div 1000) % 10, (y \div 100) % 10, (y \div 10) % 10, y % 10,
      (m \div 10) % 10, m % 10, (d \div 10) % 10, d % 10>>

TodoTok == [t |-> "TODO", c |-> "TODO:", d |-> <<>>]
DueTok(ds) == [t |-> "DUE", c |-> "@due()", d |-> ds]
SpTok == [t |-> "SP", c |-> " ", d |-> <<>>]
ChTok(ch) == [t |-> "CH", c |-> ch, d |-> <<>>]

\* A document: its lines, whether reading it raises, and how many lines the
\* file iterator delivers before it raises (all of them when it does not).
Doc(ls, r, k) == [lines |-> ls, raises |-> r, delivered |-> k]

\* Iterating a text file: the stream is cut after every newline, and what
\* follows the last newline is a line if it is not empty.
NlTok == [t |-> "NL", c |-> "\n", d |-> <<>>]

RECURSIVE SplitLines(_)
SplitLines(s) ==
    IF s = <<>> THEN <<>>
    ELSE LET nls == {i \in 1..Len(s) : s[i].t = "NL"}
         IN IF nls = {} THEN <<s>>
            ELSE <<SubSeq(s, 1, SetMin(nls) - 1)>>
                 \o SplitLines(SubSeq(s, SetMin(nls) + 1, Len(s)))

(***************************************************************************)
(* parse_todos: the regular expression and the per-line loop.              *)
(***************************************************************************)
\* str.strip(): drop leading and trailing whitespace.
RECURSIVE LStrip(_)
LStrip(s) ==
    IF s # <<>> /\ Head(s).t = "SP" THEN LStrip(Tail(s)) ELSE s

RECURSIVE RStrip(_)
RStrip(s) ==
    IF s # <<>> /\ s[Len(s)].t = "SP" THEN RStrip(SubSeq(s, 1, Len(s) - 1)) ELSE s

Strip(s) == RStrip(LStrip(s))

\* re.search(r"TODO:(.+?)@due\((\d{4}-\d{2}-\d{2})\)", line): the leftmost
\* "TODO:" that is followed, after at least one character, by a due marker;
\* the non-greedy group ends at the first such marker.
DueAfter(line, i) == {j \in (i + 2)..Len(line) : line[j].t = "DUE"}

MatchStarts(line) ==
    {i \in 1..Len(line) : line[i].t = "TODO" /\ DueAfter(line, i) # {}}

SearchLine(line) ==
    IF MatchStarts(line) = {}
    THEN [matched |-> FALSE, group1 |-> <<>>, group2 |-> <<>>]
    ELSE LET i == SetMin(MatchStarts(line))
             j == SetMin(DueAfter(line, i))
         IN [matched |-> TRUE,
             group1 |-> SubSeq(line, i + 1, j - 1),
             group2 |-> line[j].d]

Todo(txt, due, file, line) ==
    [text |-> txt, due |-> due, file |-> file, line |-> line]

\* The records of lines from..upto of the document, in line order.
RECURSIVE ParseLines(_, _, _, _)
ParseLines(doc, file_path, from, upto) ==
    IF from > upto THEN <<>>
    ELSE LET m == SearchLine(doc.lines[from])
         IN (IF m.matched
             THEN <<Todo(Strip(m.group1), m.group2, file_path, from)>>
             ELSE <<>>)
            \o ParseLines(doc, file_path, from + 1, upto)

\* parse_todos returns whatever was appended before an exception, if any.
parse_todos(doc, file_path) == ParseLines(doc, file_path, 1, doc.delivered)

\* Lines 113-118: all_todos over every located document.
CollectTodos(files) ==
    Flatten([i \in 1..Len(files) |-> parse_todos(files[i], i)])

(***************************************************************************)
(* Dates: datetime.strptime(..., "%Y-%m-%d") and timedelta.days.           *)
(***************************************************************************)
YearOf(ds) == ds[1] * 1000 + ds[2] * 100 + ds[3] * 10 + ds[4]
MonthOf(ds) == ds[5] * 10 + ds[6]
DayOf(ds) == ds[7] * 10 + ds[8]

IsLeap(y) == (y % 4 = 0) /\ ((y % 100 # 0) \/ (y % 400 = 0))

DaysInMonth(y, m) ==
    IF m = 2 THEN (IF IsLeap(y) THEN 29 ELSE 28)
    ELSE IF m \in {4, 6, 9, 11} THEN 30 ELSE 31

\* strptime raises ValueError unless the digits name a real calendar date.
ValidDate(ds) ==
    /\ YearOf(ds) >= 1
    /\ MonthOf(ds) \in 1..12
    /\ DayOf(ds) \in 1..DaysInMonth(YearOf(ds), MonthOf(ds))

RECURSIVE DaysBeforeMonth(_, _)
DaysBeforeMonth(y, m) ==
    IF m = 1 THEN 0 ELSE DaysBeforeMonth(y, m - 1) + DaysInMonth(y, m - 1)

\* date.toordinal(): the proleptic Gregorian day number.
ToOrdinal(y, m, d) ==
    (y - 1) * 365 + ((y - 1) \div 4) - ((y - 1) \div 100) + ((y - 1) \div 400)
    + DaysBeforeMonth(y, m) + d

OrdinalOf(ds) == ToOrdinal(YearOf(ds), MonthOf(ds), DayOf(ds))

Clock(y, m, d, h, mi, s, us) ==
    [year |-> y, month |-> m, day |-> d, hour |-> h, minute |-> mi,
     second |-> s, microsecond |-> us]

ClockOrdinal(now) == ToOrdinal(now.year, now.month, now.day)

SecondsOfDay(now) == now.hour * 3600 + now.minute * 60 + now.second

\* A fraction of a second past the whole second borrows one second in the
\* floor below.
SubSecond(now) == IF now.microsecond > 0 THEN 1 ELSE 0

\* (due_date - now).days: the due date is at midnight, now carries its
\* time of day, and timedelta normalises days by floor division.
DiffDays(ds, now) ==
    ((OrdinalOf(ds) - ClockOrdinal(now)) * SecondsPerDay
        - SecondsOfDay(now) - SubSecond(now)) \div SecondsPerDay

\* Lines 133-138 for one record with a valid date.
\* Lines 133-138 with the overdue test off by one day.
BucketOverdueAfterADay(ds, now) ==
    IF DiffDays(ds, now) < -1 THEN "overdue"
    ELSE IF DiffDays(ds, now) = 0
            \/ (DiffDays(ds, now) = 1 /\ now.hour >= EveningHour)
         THEN "due_soon"
         ELSE "none"

Bucket(ds, now) ==
    IF DiffDays(ds, now) < 0 THEN "overdue"
    ELSE IF DiffDays(ds, now) = 0
            \/ (DiffDays(ds, now) = 1 /\ now.hour >= EveningHour)
         THEN "due_soon"
         ELSE "none"

\* Lines 128-141: the bucket each record lands in ("invalid" on ValueError).
Classify(todo, now) ==
    IF ValidDate(todo.due) THEN Bucket(todo.due, now) ELSE "invalid"

(***************************************************************************)
(* The environment: external commands, the log and the clock.              *)
(***************************************************************************)
NoTodo == Todo(<<>>, <<>>, 0, 0)

\* One subprocess.run: the command, the record it is about, the urgency of a
\* notification, the count a summary reports, whether the tracker held the
\* description when asked, and how the command ended as far as the caller
\* sees it (send_notification returns nothing: its failures go to the log).
Call(cmd, todo, urgency, n, held, result) ==
    [cmd |-> cmd, todo |-> todo, urgency |-> urgency, n |-> n,
     held |-> held, result |-> result]

\* subprocess.run(..., check=True): exit 0, CalledProcessError,
\* FileNotFoundError when the binary is missing, or any other exception
\* (PermissionError for a binary that is not executable, ValueError for a NUL
\* character in an argument).
RunOutcomes == {"ok", "nonzero", "notfound", "raises"}

Logged(l, msg) == l (+) SetToBag({msg})

LogCount(l, msg) == IF msg \in DOMAIN l THEN l[msg] ELSE 0

CheckInterval == 3600
BackoffSeconds == 60

ClockLE(a, b) ==
    \/ ClockOrdinal(a) < ClockOrdinal(b)
    \/ ClockOrdinal(a) = ClockOrdinal(b) /\ SecondsOfDay(a) <= SecondsOfDay(b)

(***************************************************************************)
(* The universes the specifications draw their inputs from.                *)
(***************************************************************************)
\* The daemon: up to MaxFiles documents of at most one record each.
LineOverdue == <<TodoTok, ChTok("a"), DueTok(Digits(2023, 12, 31))>>
LineTomorrow == <<TodoTok, SpTok, ChTok("a"), SpTok, DueTok(Digits(2024, 1, 2))>>
LineInvalid == <<TodoTok, ChTok("b"), DueTok(Digits(2024, 2, 30))>>
LineNoise == <<ChTok("x"), TodoTok, ChTok("b")>>

DaemonDocs ==
    {Doc(<<LineOverdue>>, FALSE, 1),
     Doc(<<LineNoise, LineTomorrow>>, FALSE, 2),
     Doc(<<LineInvalid>>, FALSE, 1),
     Doc(<<LineOverdue>>, TRUE, 0)}

\* Lines 28-35: no document at all is located under an empty or missing
\* root.
DaemonFiles == SeqsUpTo(DaemonDocs, MaxFiles)

DaemonClocks == {Clock(2024, 1, 1, 9, 0, 0, 0), Clock(2024, 1, 1, 19, 0, 0, 0)}

\* The extractor: every stream of up to MaxDocTokens tokens and newlines.
ParseTokens ==
    {TodoTok, DueTok(Digits(2024, 1, 1)), SpTok, ChTok("a"), NlTok}

\* The classifier: due dates around month and year ends, and malformed ones,
\* against every hour of a few days.
ClassifyDates ==
    {Digits(2023, 12, 30), Digits(2023, 12, 31), Digits(2024, 1, 1),
     Digits(2024, 1, 2), Digits(2024, 1, 3), Digits(2024, 1, 4),
     Digits(2024, 2, 28), Digits(2024, 2, 29), Digits(2024, 3, 1),
     Digits(2024, 3, 2), Digits(2024, 2, 30), Digits(2023, 2, 29),
     Digits(2024, 13, 1), Digits(2024, 0, 10), Digits(0, 1, 1),
     Digits(2024, 4, 31)}

ClassifyDays == {<<2023, 12, 31>>, <<2024, 1, 1>>, <<2024, 2, 28>>, <<2024, 2, 29>>}

ClassifyClocks ==
    {Clock(d[1], d[2], d[3], h, mi, sec, us) :
        d \in ClassifyDays, h \in 0..23, mi \in {0, 30}, sec \in {0, 59},
        us \in {0, 1}}

(***************************************************************************)
(* Initial states.                                                         *)
(***************************************************************************)
InitLocals ==
    /\ at = "none"
    /\ all_todos = <<>>
    /\ overdue = <<>>
    /\ due_soon = <<>>
    /\ idx = 0
    /\ synced = 0
    /\ tasks = {}
    /\ calls = <<>>
    /\ log = EmptyBag

\* main has constructed a TodoDaemon, with or without --once.
Init ==
    /\ once \in BOOLEAN
    /\ entry = "main"
    /\ md_files \in DaemonFiles
    /\ clock \in DaemonClocks
    /\ pc = "start"
    /\ InitLocals

\* One document, readable or raising after any number of delivered lines,
\* about to be collected.
InitParse ==
    /\ \E k \in 0..MaxDocTokens : \E stream \in [1..k -> ParseTokens] :
       \E r \in BOOLEAN : \E n \in 0..Len(SplitLines(stream)) :
          /\ r \/ n = Len(SplitLines(stream))
          /\ md_files = <<Doc(SplitLines(stream), r, n)>>
    /\ once = FALSE
    /\ entry = "main"
    /\ clock = Clock(2024, 1, 1, 9, 0, 0, 0)
    /\ pc = "collect"
    /\ InitLocals

\* One document holding one record, about to be collected and classified.
InitClassify ==
    /\ md_files \in {<<Doc(<<(<<TodoTok, ChTok("a"), DueTok(ds)>>)>>, FALSE, 1)>> :
                        ds \in ClassifyDates}
    /\ once = FALSE
    /\ entry = "main"
    /\ clock \in ClassifyClocks
    /\ pc = "collect"
    /\ InitLocals

\* sync_to_taskwarrior called by itself, as a caller other than
\* check_due_tasks may: any record set a collection can give, the empty one
\* among them, over a tracker holding any of its descriptions.
InitSync ==
    /\ once = TRUE
    /\ entry = "sync"
    /\ md_files = <<>>
    /\ clock = Clock(2024, 1, 1, 9, 0, 0, 0)
    /\ pc = "sync_entry"
    /\ at = "none"
    /\ all_todos \in {CollectTodos(files) : files \in DaemonFiles}
    /\ overdue = <<>>
    /\ due_soon = <<>>
    /\ idx = 0
    /\ synced = 0
    /\ tasks \in SUBSET {all_todos[i].text : i \in 1..Len(all_todos)}
    /\ calls = <<>>
    /\ log = EmptyBag

(***************************************************************************)
(* check_due_tasks.                                                        *)
(***************************************************************************)
\* Lines 116-118: the loop goes on to the next document whether or not the
\* one just parsed could be read, and ends after the last one.
AfterDocumentStopsAtError(i, files, raised) ==
    IF i < Len(files) /\ ~raised THEN "parse" ELSE "collected"

AfterDocument(i, files, raised) ==
    IF i < Len(files) THEN "parse" ELSE "collected"

\* Lines 120-122: with no record at all the cycle returns at once.  Without
\* the return the loops below would run over nothing.
AfterCollectGoesOn(todos) == IF todos = <<>> THEN "report" ELSE "classify"

AfterCollect(todos) == IF todos = <<>> THEN "sleep" ELSE "classify"

\* Lines 113-116: the cycle starts with no record and locates the
\* documents; over an empty list the loop of lines 116-118 runs no pass.
FindFiles ==
    /\ pc = "collect"
    /\ pc' = AfterDocument(0, md_files, FALSE)
    /\ UNCHANGED <<once, entry, md_files, clock, at, all_todos, overdue,
                   due_soon, idx, synced, tasks, calls, log>>

\* Lines 116-118: one document is parsed and its records are appended; a
\* read error is logged by parse_todos.
Collect ==
    /\ pc = "parse"
    /\ idx < Len(md_files)
    /\ LET i == idx + 1
       IN  /\ all_todos' = all_todos \o parse_todos(md_files[i], i)
           /\ log' = IF md_files[i].raises
                     THEN Logged(log, "Error reading")
                     ELSE log
           /\ idx' = i
           /\ pc' = AfterDocument(i, md_files, md_files[i].raises)
    /\ UNCHANGED <<once, entry, md_files, clock, at, overdue, due_soon, synced, tasks,
                   calls>>

\* Lines 120-122: return at once when no record was collected.
ReturnIfEmpty ==
    /\ pc = "collected"
    /\ log' = IF all_todos = <<>> THEN Logged(log, "No TODOs found") ELSE log
    /\ pc' = AfterCollect(all_todos)
    /\ idx' = IF all_todos = <<>> THEN 0 ELSE 1
    /\ UNCHANGED <<once, entry, md_files, clock, at, all_todos, overdue, due_soon,
                   synced, tasks, calls>>

\* Where the cycle goes once the overdue loop is at position i.
\* Lines 144-152 with a loop that stops one record early.
AfterOverdueStopsEarly(i, od, ds) ==
    IF i < Len(od) THEN "notify_overdue"
    ELSE IF ds # <<>> THEN "notify_due_soon" ELSE "report"

AfterOverdue(i, od, ds) ==
    IF i <= Len(od) THEN "notify_overdue"
    ELSE IF ds # <<>> THEN "notify_due_soon" ELSE "report"

\* Lines 128-141: the loop goes on to the next record whatever became of
\* the one just classified.
ClassifyGoesOnUnlessInvalid(i, todos, b) == i < Len(todos) /\ b # "invalid"

ClassifyGoesOn(i, todos, b) == i < Len(todos)

\* Lines 124-141: one pass of the loop classifies one record against now
\* and logs it when its date is invalid.
ClassifyTodos ==
    /\ pc = "classify"
    /\ LET todo == all_todos[idx]
           b == Classify(todo, clock)
           od == IF b = "overdue" THEN Append(overdue, todo) ELSE overdue
           ds == IF b = "due_soon" THEN Append(due_soon, todo) ELSE due_soon
       IN  /\ overdue' = od
           /\ due_soon' = ds
           /\ log' = IF b = "invalid"
                     THEN Logged(log, "Invalid date format")
                     ELSE log
           /\ IF ClassifyGoesOn(idx, all_todos, b)
              THEN /\ pc' = "classify"
                   /\ idx' = idx + 1
              ELSE /\ pc' = AfterOverdue(1, od, ds)
                   /\ idx' = 1
    /\ UNCHANGED <<once, entry, md_files, clock, at, all_todos, synced, tasks, calls>>

HandleExceptionStops == "stopped"

\* Lines 183-185: where the generic handler of run_daemon takes the loop.
HandleException == "backoff"

\* An exception no handler inside check_due_tasks catches unwinds the cycle.
\* Under run_daemon it reaches the generic handler, which logs it after what
\* the iteration has logged; under --once (line 209) nothing catches it and
\* the process ends with it.
Unhandled ==
    /\ IF once
       THEN /\ pc' = "crashed"
            /\ log' = log
       ELSE /\ pc' = HandleException
            /\ log' = Logged(log, "Unexpected error")
    /\ all_todos' = <<>>
    /\ overdue' = <<>>
    /\ due_soon' = <<>>
    /\ idx' = 0
    /\ synced' = 0
    /\ UNCHANGED <<once, entry, md_files, clock, at, tasks, calls>>

\* Lines 61-79: what send_notification logs for each way notify-send ends.
NotifyLog(l, r) ==
    IF r = "nonzero" THEN Logged(l, "Failed to send notification")
    ELSE IF r = "notfound" THEN Logged(l, "notify-send not found")
    ELSE l

\* Lines 76-79: send_notification catches both failures of notify-send, so
\* its caller goes on to `next` however the command ended.
NotifyReturnsOrRaises(r, next) == IF r = "ok" THEN next ELSE "backoff"

NotifyReturns(r, next) == next

\* Lines 145-150: the notification of the overdue record at idx.
OverdueCall == Call("notify-send", overdue[idx], "critical", 0, FALSE, "sent")

\* Lines 153-158: the notification of the due-soon record at idx.
DueSoonCall == Call("notify-send", due_soon[idx], "normal", 0, FALSE, "sent")

\* Lines 144-150: one critical notification per overdue record.
NotifyOverdue ==
    /\ pc = "notify_overdue"
    /\ \E r \in RunOutcomes :
        IF r = "raises" THEN Unhandled
        ELSE /\ calls' = Append(calls, OverdueCall)
             /\ log' = NotifyLog(log, r)
             /\ pc' = NotifyReturns(r, AfterOverdue(idx + 1, overdue, due_soon))
             /\ idx' = IF idx < Len(overdue) THEN idx + 1 ELSE 1
             /\ UNCHANGED <<once, entry, md_files, clock, at, all_todos, overdue, due_soon,
                            synced, tasks>>

\* Lines 152-158: one normal notification per due-soon record.
NotifyDueSoon ==
    /\ pc = "notify_due_soon"
    /\ \E r \in RunOutcomes :
        IF r = "raises" THEN Unhandled
        ELSE /\ calls' = Append(calls, DueSoonCall)
             /\ log' = NotifyLog(log, r)
             /\ pc' = NotifyReturns(r, IF idx < Len(due_soon)
                                       THEN "notify_due_soon" ELSE "report")
             /\ idx' = IF idx < Len(due_soon) THEN idx + 1 ELSE 1
             /\ UNCHANGED <<once, entry, md_files, clock, at, all_todos, overdue, due_soon,
                            synced, tasks>>

\* Line 168-169: the handler around the probe and the whole sync.
SkipSync(l) == Logged(l, "TaskWarrior not available, skipping sync")

\* Where sync goes after the record at position i is done with.
AfterRecord(i, todos) ==
    IF i < Len(todos) THEN "sync_check" ELSE "sync_summary"

\* Lines 165-168: `task --version` with check=True; sync is entered only
\* when it neither exits non-zero nor is missing.
SyncAllowedAlways(r) == TRUE

SyncAllowed(r) == r = "ok"

\* Lines 160-162: the summary line of the cycle.
Report ==
    /\ pc = "report"
    /\ log' = Logged(log, "Checked")
    /\ pc' = "probe"
    /\ UNCHANGED <<once, entry, md_files, clock, at, all_todos, overdue, due_soon, idx,
                   synced, tasks, calls>>

\* Line 166: the availability probe, ending as r.
ProbeCall(r) == Call("task --version", NoTodo, "", 0, FALSE, r)

\* Lines 165-169: the availability probe; sync_to_taskwarrior is called when
\* it succeeds, the handler logs the skip when it fails.
Probe ==
    /\ pc = "probe"
    /\ \E r \in RunOutcomes :
        IF r = "raises" THEN Unhandled
        ELSE /\ calls' = Append(calls, ProbeCall(r))
             /\ IF SyncAllowed(r)
                THEN /\ log' = log
                     /\ pc' = "sync_entry"
                ELSE /\ log' = SkipSync(log)
                     /\ pc' = "sleep"
             /\ idx' = 1
             /\ synced' = 0
             /\ UNCHANGED <<once, entry, md_files, clock, at, all_todos, overdue, due_soon,
                            tasks>>

(***************************************************************************)
(* sync_to_taskwarrior.                                                    *)
(***************************************************************************)
\* Lines 83-86: an empty record set returns at once; otherwise the count
\* starts at zero and the loop at the first record.
SyncEnter ==
    /\ pc = "sync_entry"
    /\ pc' = IF all_todos = <<>> THEN "sleep" ELSE "sync_check"
    /\ idx' = 1
    /\ synced' = 0
    /\ UNCHANGED <<once, entry, md_files, clock, at, all_todos, overdue,
                   due_soon, tasks, calls, log>>

\* Line 168: FileNotFoundError raised inside sync_to_taskwarrior is caught by
\* check_due_tasks, which logs the skip and returns normally; nothing in
\* sync_to_taskwarrior catches it, so it ends a caller that has no handler.
MissingBinaryLands == IF entry = "main" THEN "sleep" ELSE "crashed"

MissingBinaryLog(l) == IF entry = "main" THEN SkipSync(l) ELSE l

\* Lines 90-91: the existence check of the record at idx, ending as r.
CheckCall(r) ==
    Call("task _get", all_todos[idx], "", 0, all_todos[idx].text \in tasks, r)

\* Lines 94-102: the create of the record at idx, ending as r.
CreateCall(r) ==
    Call("task add", all_todos[idx], "", 0, all_todos[idx].text \in tasks, r)

\* Line 109: the summary notification of the running count.
SummaryCall == Call("notify-send", NoTodo, "normal", synced, FALSE, "sent")

\* Line 93: a non-zero return code of the check means the task is absent.
NeedsCreateAlways(r) == TRUE

\* Line 93 with the return-code test inverted.
NeedsCreateWhenPresent(r) == r = "exists"

NeedsCreate(r) == r = "absent"

\* Lines 105-106: CalledProcessError is caught inside the loop body, so the
\* loop goes on with the next record.
AfterCreateErrorLeaves(i, todos) == "sleep"

AfterCreateError(i, todos) == AfterRecord(i, todos)

\* Lines 89-93: the existence check of the record at idx.  A missing binary
\* raises FileNotFoundError, which only check_due_tasks catches (line 168).
SyncCheck ==
    /\ pc = "sync_check"
    /\ \E r \in {"exists", "absent", "notfound", "raises"} :
        IF r = "raises" THEN Unhandled
        ELSE /\ calls' = Append(calls, CheckCall(r))
             /\ IF r = "notfound"
                THEN /\ pc' = MissingBinaryLands
                     /\ idx' = idx
                     /\ log' = MissingBinaryLog(log)
                ELSE IF NeedsCreate(r)
                THEN /\ pc' = "sync_create"
                     /\ idx' = idx
                     /\ log' = log
                ELSE /\ pc' = AfterRecord(idx, all_todos)
                     /\ idx' = idx + 1
                     /\ log' = log
             /\ UNCHANGED <<once, entry, md_files, clock, at, all_todos, overdue, due_soon,
                            synced, tasks>>

\* Lines 94-106: create the record at idx, the whole of subprocess.run as
\* the caller sees it when no interrupt cuts it (CutAt has the cut one); a
\* non-zero exit is logged and the loop goes on, a missing binary leaves
\* sync through line 168.
SyncCreate ==
    /\ pc = "sync_create"
    /\ \E r \in RunOutcomes :
        IF r = "raises" THEN Unhandled
        ELSE /\ calls' = Append(calls, CreateCall(r))
             /\ IF r = "ok"
                THEN /\ synced' = synced + 1
                     /\ tasks' = tasks \cup {all_todos[idx].text}
                     /\ log' = log
                     /\ pc' = AfterRecord(idx, all_todos)
                     /\ idx' = idx + 1
                ELSE IF r = "nonzero"
                THEN /\ synced' = synced
                     /\ tasks' = tasks
                     /\ log' = Logged(log, "TaskWarrior sync failed")
                     /\ pc' = AfterCreateError(idx, all_todos)
                     /\ idx' = idx + 1
                ELSE /\ synced' = synced
                     /\ tasks' = tasks
                     /\ log' = MissingBinaryLog(log)
                     /\ pc' = MissingBinaryLands
                     /\ idx' = idx
             /\ UNCHANGED <<once, entry, md_files, clock, at, all_todos, overdue, due_soon>>

\* Line 108: the summary is sent when the count is positive.
ShouldSummariseAlways(n) == TRUE

ShouldSummarise(n) == n > 0

\* Lines 108-109: one summary notification when anything was created.
SyncSummary ==
    /\ pc = "sync_summary"
    /\ IF ShouldSummarise(synced)
       THEN \E r \in RunOutcomes :
               IF r = "raises" THEN Unhandled
               ELSE /\ calls' = Append(calls, SummaryCall)
                    /\ log' = NotifyLog(log, r)
                    /\ pc' = NotifyReturns(r, "sleep")
                    /\ UNCHANGED <<once, entry, md_files, clock, at, all_todos, overdue,
                                   due_soon, idx, synced, tasks>>
       ELSE /\ pc' = "sleep"
            /\ UNCHANGED <<once, entry, md_files, clock, at, all_todos, overdue, due_soon,
                           idx, synced, tasks, calls, log>>

(***************************************************************************)
(* run_daemon.                                                             *)
(***************************************************************************)
\* The positions inside check_due_tasks and sync_to_taskwarrior.
InCycle ==
    {"collect", "parse", "collected", "classify", "notify_overdue",
     "notify_due_soon", "report", "probe", "sync_entry", "sync_check",
     "sync_create", "sync_summary"}

\* Seconds of the time.sleep the daemon is in, if any.
Sleeping ==
    IF pc = "sleep" /\ ~once THEN CheckInterval
    ELSE IF pc = "backoff" THEN BackoffSeconds ELSE 0

\* Lines 173-174: the two start-up lines, before the loop and its try.
StartDaemon ==
    /\ pc = "start"
    /\ ~once
    /\ pc' = "collect"
    /\ log' = Logged(Logged(log, "Starting TODO daemon"), "Check interval")
    /\ UNCHANGED <<once, entry, md_files, clock, at, all_todos, overdue, due_soon, idx,
                   synced, tasks, calls>>

\* Lines 208-209: with --once main calls check_due_tasks itself, outside
\* run_daemon and its handlers.
MainOnce ==
    /\ pc = "start"
    /\ once
    /\ pc' = "collect"
    /\ UNCHANGED <<once, entry, md_files, clock, at, all_todos, overdue, due_soon, idx,
                   synced, tasks, calls, log>>

\* Line 209: the call has returned to main, which returns.
ExitOnce ==
    /\ pc = "sleep"
    /\ once
    /\ pc' = "exited"
    /\ UNCHANGED <<once, entry, md_files, clock, at, all_todos, overdue, due_soon, idx,
                   synced, tasks, calls, log>>

\* Line 116: locating the documents raises (OSError from rglob) before any
\* document is parsed; nothing inside the cycle handles it.
CycleRaises ==
    /\ pc = "collect"
    /\ Unhandled

\* Lines 173-174: the lines run_daemon logs once, before its loop.
StartUpLines == {"Starting TODO daemon", "Check interval"}

\* The locals of the finished call are gone when the loop comes round; calls
\* start afresh with the iteration, and of the log the model keeps the
\* start-up lines and the lines of the running iteration.
EndIteration ==
    /\ all_todos' = <<>>
    /\ overdue' = <<>>
    /\ due_soon' = <<>>
    /\ idx' = 0
    /\ synced' = 0
    /\ calls' = <<>>
    /\ log' = [m \in DOMAIN log \cap StartUpLines |-> log[m]]

\* Time passes while the daemon sleeps.
Later(now) == {c \in DaemonClocks : ClockLE(now, c)}

\* Line 179: the inter-cycle sleep ends and the loop runs the next cycle.
Sleep ==
    /\ pc = "sleep"
    /\ ~once
    /\ pc' = "collect"
    /\ clock' \in Later(clock)
    /\ EndIteration
    /\ UNCHANGED <<once, entry, md_files, at, tasks>>

\* Line 185: the backoff sleep ends and the loop retries.
Backoff ==
    /\ pc = "backoff"
    /\ pc' = "collect"
    /\ clock' \in Later(clock)
    /\ EndIteration
    /\ UNCHANGED <<once, entry, md_files, at, tasks>>

\* Where KeyboardInterrupt lands: inside the try body (the cycle and the
\* interval sleep) line 180 catches it; raised inside the except clause of
\* line 183 (the backoff sleep), before the loop or under --once (before,
\* inside or on return from the call of line 209), nothing catches it.
InterruptLands(p) ==
    IF ~once /\ p \in InCycle \cup {"sleep"} THEN "stopped" ELSE "crashed"

\* The command of the step at p whose failure the code answers with a log
\* line (lines 77, 79, 106, 169): the command can have ended and the line not
\* yet be written when an interrupt arrives.
Unlogged(p) ==
    IF p = "notify_overdue" THEN {OverdueCall}
    ELSE IF p = "notify_due_soon" THEN {DueSoonCall}
    ELSE IF p = "sync_summary" /\ ShouldSummarise(synced) THEN {SummaryCall}
    ELSE IF p = "probe" THEN {ProbeCall(r) : r \in {"nonzero", "notfound"}}
    ELSE IF p = "sync_check" THEN {CheckCall("notfound")}
    ELSE IF p = "sync_create"
    THEN {CreateCall(r) : r \in {"nonzero", "notfound"}}
    ELSE {}

\* What is logged when an interrupt arrives at p: before the loop
\* (lines 173-176) none, one or both of the start-up lines are written.
LoggedAt(p) ==
    IF p = "start" /\ ~once
    THEN {log, Logged(log, "Starting TODO daemon"),
          Logged(Logged(log, "Starting TODO daemon"), "Check interval")}
    ELSE {log}

\* What an interrupt arriving at p finds done of the step at p: nothing; or
\* its command ended in a failure the code has yet to log; or, at lines
\* 94-102, `task add` still running with the task already stored by the
\* tracker, so that subprocess.run raises KeyboardInterrupt: no result has
\* come back to the caller and the create is not counted.
CutAt(p) ==
    {[calls |-> calls, tasks |-> tasks]}
    \cup {[calls |-> Append(calls, c), tasks |-> tasks] : c \in Unlogged(p)}
    \cup (IF p = "sync_create"
          THEN {[calls |-> calls, tasks |-> tasks \cup {all_todos[idx].text}]}
          ELSE {})

\* An external interrupt (SIGINT) delivered while the process runs, between
\* two steps or inside the step at pc.  The frames of check_due_tasks
\* unwind; the commands the iteration ran stay run and its log lines stay
\* logged.  Where line 180 catches it the daemon logs and stops, unless an
\* interrupt arrives inside a handler of run_daemon, which nothing catches:
\* "before" the handler's log line, in the handler of lines 180-181 that an
\* earlier interrupt entered or in the one of lines 183-184 that an
\* exception of the step entered; or "after" line 181 has written its line
\* and before the break of line 182.  (After line 184 has written its line
\* the daemon is at "backoff".)
Interrupt ==
    /\ pc \in InCycle \cup {"start", "sleep", "backoff"}
    /\ \E cut \in CutAt(pc) :
       \E logged \in LoggedAt(pc) :
       \E in_handler \in {"no", "before", "after"} :
          /\ calls' = cut.calls
          /\ tasks' = cut.tasks
          /\ IF InterruptLands(pc) = "stopped" /\ in_handler = "no"
             THEN /\ pc' = "stopped"
                  /\ at' = pc
                  /\ log' = Logged(logged, "Daemon stopped by user")
             ELSE IF InterruptLands(pc) = "stopped"
             THEN /\ pc' = "crashed"
                  /\ at' = "handler"
                  /\ log' = IF in_handler = "before"
                            THEN logged
                            ELSE Logged(logged, "Daemon stopped by user")
             ELSE /\ in_handler = "no"
                  /\ pc' = "crashed"
                  /\ at' = pc
                  /\ log' = logged
    /\ all_todos' = <<>>
    /\ overdue' = <<>>
    /\ due_soon' = <<>>
    /\ idx' = 0
    /\ synced' = 0
    /\ UNCHANGED <<once, entry, md_files, clock>>

(***************************************************************************)
(* Specifications.                                                         *)
(***************************************************************************)
Next ==
    \/ StartDaemon
    \/ MainOnce
    \/ FindFiles
    \/ Collect
    \/ ReturnIfEmpty
    \/ CycleRaises
    \/ ClassifyTodos
    \/ NotifyOverdue
    \/ NotifyDueSoon
    \/ Report
    \/ Probe
    \/ SyncEnter
    \/ SyncCheck
    \/ SyncCreate
    \/ SyncSummary
    \/ Sleep
    \/ ExitOnce
    \/ Backoff
    \/ Interrupt

Spec == Init /\ [][Next]_vars

\* The process entered through main or through sync_to_taskwarrior.
SpecEntry == (Init \/ InitSync) /\ [][Next]_vars

\* The extractor alone, over every line of the token alphabet.
NextParse == FindFiles \/ Collect \/ ReturnIfEmpty

SpecParse == InitParse /\ [][NextParse]_vars

\* Extraction and classification of one record, over dates and clocks.
NextClassify == FindFiles \/ Collect \/ ReturnIfEmpty \/ ClassifyTodos

SpecClassify == InitClassify /\ [][NextClassify]_vars

(***************************************************************************)
(* Vocabulary of the properties.                                           *)
(***************************************************************************)
\* check_due_tasks has returned to its caller: run_daemon, which sleeps the
\* interval, or main under --once, which returns.
Returned == pc \in {"sleep", "exited"}

\* The day difference of the specification: calendar date against calendar
\* date, whatever the time of day.
CalendarDiff(ds, now) == OrdinalOf(ds) - ClockOrdinal(now)

InSeq(x, s) == \E i \in 1..Len(s) : s[i] = x

\* Classification of the cycle's records has run.
Classified == pc \in {"notify_overdue", "notify_due_soon", "report", "probe"}

\* The locate-extract pass of the cycle has run.
Collected == pc \in {"classify", "sleep"}

IsTracker(c) == c.cmd \in {"task _get", "task add"}

\* Position of a record in all_todos (records differ in file or line).
Pos(todo) == CHOOSE k \in 1..Len(all_todos) : all_todos[k] = todo

\* The tracker behaved in this cycle: checks answered by what it holds,
\* every create succeeded, the binary never went missing.
TrackerFaithful ==
    \A i \in 1..Len(calls) :
        /\ calls[i].cmd = "task _get" =>
               calls[i].result = (IF calls[i].held THEN "exists" ELSE "absent")
        /\ calls[i].cmd = "task add" => calls[i].result = "ok"

(***************************************************************************)
(* C1: a record due on today's calendar date is due-soon, and not overdue, *)
(* at every time of day.                                                   *)
(***************************************************************************)
C1_DueTodayIsDueSoon ==
    Classified =>
        \A i \in 1..Len(all_todos) :
            (ValidDate(all_todos[i].due)
             /\ CalendarDiff(all_todos[i].due, clock) = 0)
            => (InSeq(all_todos[i], due_soon) /\ ~InSeq(all_todos[i], overdue))

(***************************************************************************)
(* C2: a record due on tomorrow's calendar date is in no bucket before     *)
(* 18:00 and in the due-soon bucket from 18:00 on.                         *)
(***************************************************************************)
C2_DueTomorrowEveningRule ==
    Classified =>
        \A i \in 1..Len(all_todos) :
            (ValidDate(all_todos[i].due)
             /\ CalendarDiff(all_todos[i].due, clock) = 1)
            => /\ ~InSeq(all_todos[i], overdue)
               /\ InSeq(all_todos[i], due_soon) <=> clock.hour >= EveningHour

(***************************************************************************)
(* C3: an interrupt delivered during a cycle, the interval sleep or the    *)
(* backoff sleep never leaves run_daemon as an uncaught exception.         *)
(***************************************************************************)
C3_InterruptNeverEscapes ==
    ~(~once /\ pc = "crashed" /\ at \in InCycle \cup {"sleep", "backoff"})

(***************************************************************************)
(* C4: a cycle that raises leaves the daemon running: the error is logged, *)
(* the daemon sleeps the 60-second backoff and then starts another cycle;  *)
(* it stops only when an interrupt is delivered.                           *)
(***************************************************************************)
\* The generic handler of run_daemon has logged an error of this iteration.
HandlerRan == LogCount(log, "Unexpected error") = 1

\* An exception has left check_due_tasks: to the generic handler of
\* run_daemon, or out of the process under --once.
Escaped ==
    \/ pc = "backoff" /\ HandlerRan
    \/ pc = "crashed" /\ at = "none"

C4_SurvivesFailingCycles ==
    [][/\ (pc \in InCycle /\ HandlerRan') =>
            /\ pc' = "backoff"
            /\ Sleeping' = BackoffSeconds
       /\ (pc \in InCycle /\ pc' = "backoff") => HandlerRan'
       /\ (pc = "backoff" /\ at' = "none") => (pc' = "collect" /\ ~HandlerRan')
       /\ (pc' = "stopped" /\ pc # "stopped") => at' = pc]_vars

\* A cycle has raised and the daemon is in its backoff sleep.
C4_Witness == pc = "backoff" /\ HandlerRan /\ at = "none"

(***************************************************************************)
(* C5: no existence check and no create is made for a record whose due     *)
(* date fails validation.                                                  *)
(***************************************************************************)
C5_InvalidDateNotSynced ==
    \A i \in 1..Len(calls) : IsTracker(calls[i]) => ValidDate(calls[i].todo.due)

(***************************************************************************)
(* C6: a document whose reading raises contributes no record to the cycle  *)
(* and the error is reported.                                              *)
(***************************************************************************)
C6_FailedDocumentYieldsNothing ==
    Collected =>
        \A f \in 1..Len(md_files) :
            md_files[f].raises =>
                /\ LogCount(log, "Error reading") >= 1
                /\ \A i \in 1..Len(all_todos) : all_todos[i].file # f

(***************************************************************************)
(* C7: a record due two or more calendar days after today is in no bucket  *)
(* at every time of day.                                                   *)
(***************************************************************************)
C7_DueLaterIsNotYet ==
    Classified =>
        \A i \in 1..Len(all_todos) :
            (ValidDate(all_todos[i].due)
             /\ CalendarDiff(all_todos[i].due, clock) >= 2)
            => (~InSeq(all_todos[i], due_soon) /\ ~InSeq(all_todos[i], overdue))

(***************************************************************************)
(* C8: no record of the extractor has an empty description.                *)
(***************************************************************************)
C8_NoEmptyText ==
    Collected => \A i \in 1..Len(all_todos) : all_todos[i].text # <<>>

(***************************************************************************)
(* C9: a create follows at once the existence check of the same record     *)
(* that answered absent, the tracker is called record by record in input   *)
(* order, and a tracker that behaves gets at most one create per           *)
(* description in a cycle.                                                 *)
(***************************************************************************)
C9_CreateOnlyWhenAbsent ==
    /\ \A i \in 1..Len(calls) :
          calls[i].cmd = "task add" =>
              /\ i > 1
              /\ calls[i - 1].cmd = "task _get"
              /\ calls[i - 1].todo = calls[i].todo
              /\ calls[i - 1].result = "absent"
    /\ pc \in InCycle \cup {"sleep", "exited"} =>
          \A i, j \in 1..Len(calls) :
              (i < j /\ IsTracker(calls[i]) /\ IsTracker(calls[j]))
              => Pos(calls[i].todo) <= Pos(calls[j].todo)
    /\ TrackerFaithful =>
          \A i, j \in 1..Len(calls) :
              (i < j /\ calls[i].cmd = "task add" /\ calls[j].cmd = "task add")
              => calls[i].todo.text # calls[j].todo.text

\* Two records of one description: the first created, the second found.
C9_Witness ==
    /\ TrackerFaithful
    /\ \E i, j \in 1..Len(calls) :
          /\ i < j
          /\ calls[i].cmd = "task add"
          /\ calls[j].cmd = "task _get"
          /\ calls[j].todo # calls[i].todo
          /\ calls[j].todo.text = calls[i].todo.text
          /\ calls[j].result = "exists"

(***************************************************************************)
(* C10: a create that exits non-zero is logged and the pass goes on: when  *)
(* sync is over and the binary never went missing, every record got its    *)
(* existence check, every absent one its create, and the summary step ran. *)
(***************************************************************************)
FailedCreates == {i \in 1..Len(calls) :
                     calls[i].cmd = "task add" /\ calls[i].result = "nonzero"}

SyncStarted ==
    \E i \in 1..Len(calls) :
        calls[i].cmd = "task --version" /\ calls[i].result = "ok"

BinaryWentMissing ==
    \E i \in 1..Len(calls) : IsTracker(calls[i]) /\ calls[i].result = "notfound"

C10_CreateFailureDoesNotAbort ==
    /\ pc \in InCycle \cup {"sleep", "exited"} =>
          LogCount(log, "TaskWarrior sync failed") = Cardinality(FailedCreates)
    /\ (Returned /\ SyncStarted /\ ~BinaryWentMissing) =>
          /\ \A k \in 1..Len(all_todos) :
                \E i \in 1..Len(calls) :
                    /\ calls[i].cmd = "task _get"
                    /\ calls[i].todo = all_todos[k]
                    /\ calls[i].result = "absent" =>
                          (i < Len(calls) /\ calls[i + 1].cmd = "task add"
                           /\ calls[i + 1].todo = all_todos[k])
          /\ synced > 0 =>
                /\ calls[Len(calls)].cmd = "notify-send"
                /\ calls[Len(calls)].n = synced

\* The create of the first record failed, the second record was created,
\* and the summary reported it.
C10_Witness ==
    /\ Returned
    /\ \E i \in FailedCreates :
          /\ Pos(calls[i].todo) = 1
          /\ \E j \in (i + 1)..Len(calls) :
                /\ calls[j].cmd = "task add"
                /\ calls[j].result = "ok"
                /\ Pos(calls[j].todo) = 2
    /\ calls[Len(calls)].cmd = "notify-send"
    /\ calls[Len(calls)].n = 1

(***************************************************************************)
(* More vocabulary: the notifications among the calls of the cycle.        *)
(***************************************************************************)
IsRecordNotify(c) == c.cmd = "notify-send" /\ c.todo # NoTodo

IsSummary(c) == c.cmd = "notify-send" /\ c.todo = NoTodo

RecordNotifies == SelectSeq(calls, IsRecordNotify)

Summaries == SelectSeq(calls, IsSummary)

OkCreates == {i \in 1..Len(calls) :
                 calls[i].cmd = "task add" /\ calls[i].result = "ok"}

\* sync_to_taskwarrior ran to its last line.
SyncEnded == Returned /\ SyncStarted /\ ~BinaryWentMissing

\* Classification of this cycle's records is behind the daemon.
PastClassify ==
    \/ pc \in {"notify_overdue", "notify_due_soon", "report", "probe",
               "sync_entry", "sync_check", "sync_create", "sync_summary"}
    \/ Returned /\ all_todos # <<>>

(***************************************************************************)
(* C11: the running count is the number of creates that succeeded; a sync  *)
(* that runs to its end sends one summary notification exactly when that   *)
(* count is positive, and the summary reports that count.                  *)
(***************************************************************************)
C11_SummaryIffCreated ==
    /\ pc \in InCycle \cup {"sleep", "exited"} => synced = Cardinality(OkCreates)
    /\ Len(Summaries) <= 1
    /\ \A i \in 1..Len(calls) :
          IsSummary(calls[i]) =>
              (i = Len(calls) /\ calls[i].n = Cardinality(OkCreates))
    /\ SyncEnded => (Len(Summaries) = 1 <=> Cardinality(OkCreates) > 0)

\* One record was already in the tracker, the other was created and reported.
C11_Witness ==
    /\ SyncEnded
    /\ Len(Summaries) = 1
    /\ Summaries[1].n = 1
    /\ \E i \in 1..Len(calls) :
          calls[i].cmd = "task _get" /\ calls[i].result = "exists"

(***************************************************************************)
(* C12: whether notify-send succeeds, exits non-zero or is missing, each    *)
(* notification is followed by the next one or by the availability probe:  *)
(* when the probe runs, every overdue and every due-soon record has had    *)
(* its attempt.                                                            *)
(***************************************************************************)
C12_NotifyFailureNeverPropagates ==
    [][/\ (pc \in {"notify_overdue", "notify_due_soon"} /\ at' = "none"
             /\ ~Escaped') =>
                /\ pc' \in {"notify_overdue", "notify_due_soon", "report"}
                /\ Len(calls') = Len(calls) + 1
       /\ (pc = "probe" /\ at' = "none" /\ ~Escaped') =>
            /\ Len(RecordNotifies) = Len(overdue) + Len(due_soon)
            /\ calls'[Len(calls')].cmd = "task --version"]_vars

\* Both kinds of failure happened and the cycle is in sync all the same.
C12_Witness ==
    /\ pc = "sync_check"
    /\ LogCount(log, "Failed to send notification") >= 1
    /\ LogCount(log, "notify-send not found") >= 1
    /\ Len(RecordNotifies) = 2

(***************************************************************************)
(* C13: a record whose date is no calendar date is logged, lands in no     *)
(* bucket and gets no notification, and the records around it are          *)
(* classified all the same.                                                *)
(***************************************************************************)
C13_InvalidDateRejected ==
    PastClassify =>
        /\ LogCount(log, "Invalid date format")
              = Cardinality({i \in 1..Len(all_todos) : ~ValidDate(all_todos[i].due)})
        /\ \A i \in 1..Len(all_todos) :
              IF ValidDate(all_todos[i].due)
              THEN /\ InSeq(all_todos[i], overdue)
                        <=> Bucket(all_todos[i].due, clock) = "overdue"
                   /\ InSeq(all_todos[i], due_soon)
                        <=> Bucket(all_todos[i].due, clock) = "due_soon"
              ELSE /\ ~InSeq(all_todos[i], overdue)
                   /\ ~InSeq(all_todos[i], due_soon)
                   /\ \A k \in 1..Len(calls) :
                         IsRecordNotify(calls[k]) => calls[k].todo # all_todos[i]

\* The first record is invalid and the second one was notified as overdue.
C13_Witness ==
    /\ pc = "probe"
    /\ Len(all_todos) = 2
    /\ ~ValidDate(all_todos[1].due)
    /\ InSeq(all_todos[2], overdue)
    /\ Len(RecordNotifies) = 1

(***************************************************************************)
(* C14: a cycle that extracts no record, from no document or from          *)
(* documents that give none, returns at once: it is logged and no external *)
(* command is run.  sync_to_taskwarrior called with an empty record set    *)
(* returns having run no command and logged nothing.                       *)
(***************************************************************************)
C14_NoRecordsNoCalls ==
    /\ (entry = "main" /\ Returned /\ all_todos = <<>>) =>
          (calls = <<>> /\ LogCount(log, "No TODOs found") = 1)
    /\ LogCount(log, "No TODOs found") >= 1 => calls = <<>>
    /\ (entry = "sync" /\ all_todos = <<>> /\ pc # "crashed") =>
          /\ calls = <<>>
          /\ log = EmptyBag
          /\ pc \in {"sync_entry", "sleep", "exited"}

\* sync_to_taskwarrior was called with no record and has returned.
C14_Witness ==
    /\ entry = "sync"
    /\ all_todos = <<>>
    /\ pc = "exited"
    /\ calls = <<>>

\* A cycle over no document at all has returned.
C14_NoDocument ==
    /\ entry = "main"
    /\ Returned
    /\ md_files = <<>>
    /\ LogCount(log, "No TODOs found") = 1

\* A cycle over two located documents, neither readable, has returned.
C14_NoReadableDocument ==
    /\ entry = "main"
    /\ Returned
    /\ all_todos = <<>>
    /\ Len(md_files) = 2
    /\ LogCount(log, "Error reading") = 2

(***************************************************************************)
(* C15: when the availability probe fails, by a missing binary or by a     *)
(* non-zero exit, the cycle logs the skip and ends normally with no        *)
(* existence check and no create; the notifications of the records were    *)
(* all attempted before it.  Stated of passes no interrupt has cut short.  *)
(***************************************************************************)
ProbeFailed ==
    \E i \in 1..Len(calls) :
        calls[i].cmd = "task --version" /\ calls[i].result # "ok"

C15_ProbeFailureSkipsSync ==
    (ProbeFailed /\ at = "none") =>
        /\ Returned
        /\ \A i \in 1..Len(calls) : ~IsTracker(calls[i]) /\ ~IsSummary(calls[i])
        /\ calls[Len(calls)].cmd = "task --version"
        /\ LogCount(log, "TaskWarrior not available, skipping sync") = 1
        /\ Len(RecordNotifies) = Len(overdue) + Len(due_soon)

\* The version check exited non-zero after two notifications went out.
C15_Witness ==
    /\ ProbeFailed
    /\ calls[Len(calls)].result = "nonzero"
    /\ Len(RecordNotifies) = 2
    /\ Len(all_todos) = 2

(***************************************************************************)
(* C16: the per-record notifications of a cycle are, in this order, one    *)
(* "critical" notification for each overdue record and then one "normal"   *)
(* notification for each due-soon record; a record in neither bucket gets  *)
(* none.                                                                   *)
(***************************************************************************)
ExpectedNotifies ==
    [i \in 1..(Len(overdue) + Len(due_soon)) |->
        IF i <= Len(overdue)
        THEN <<overdue[i], "critical">>
        ELSE <<due_soon[i - Len(overdue)], "normal">>]

SentNotifies ==
    [i \in 1..Len(RecordNotifies) |->
        <<RecordNotifies[i].todo, RecordNotifies[i].urgency>>]

C17_PastDateIsOverdue ==
    Classified =>
        \A i \in 1..Len(all_todos) :
            (ValidDate(all_todos[i].due)
                /\ CalendarDiff(all_todos[i].due, clock) < 0) =>
                    /\ InSeq(all_todos[i], overdue)
                    /\ ~InSeq(all_todos[i], due_soon)

\* Due yesterday, checked at midnight sharp.
C17_Witness ==
    /\ Classified
    /\ SecondsOfDay(clock) = 0
    /\ clock.microsecond = 0
    /\ Len(all_todos) = 1
    /\ ValidDate(all_todos[1].due)
    /\ CalendarDiff(all_todos[1].due, clock) = -1
    /\ overdue = all_todos

(***************************************************************************)
(* C18: the records of a readable document are all collected, whichever    *)
(* other documents failed to read and wherever those stand in the list.    *)
(***************************************************************************)
TodosOf(f) == SelectSeq(all_todos, LAMBDA t : t.file = f)

C18_ReadFailureIsLocal ==
    (pc \in {"collected", "classify", "sleep", "exited"} \/ PastClassify) =>
        /\ \A f \in 1..Len(md_files) :
              ~md_files[f].raises => TodosOf(f) = parse_todos(md_files[f], f)
        /\ all_todos = CollectTodos(md_files)

\* The first document failed, the second one gave its record.
C18_Witness ==
    /\ pc = "classify"
    /\ Len(md_files) = 2
    /\ md_files[1].raises
    /\ ~md_files[2].raises
    /\ TodosOf(2) # <<>>
    /\ LogCount(log, "Error reading") = 1

(***************************************************************************)
(* C19: a pass over an available, faithful tracker leaves every collected  *)
(* description in the tracker, the tracker and the documents are the same  *)
(* when the next cycle starts, and a pass that finds every description     *)
(* present issues no create and sends no summary.                          *)
(***************************************************************************)
AllHeld ==
    \A i \in 1..Len(calls) : calls[i].cmd = "task _get" => calls[i].held

TextsOf(todos) == {todos[i].text : i \in 1..Len(todos)}

C19_SecondPassCreatesNothing ==
    /\ [](/\ (SyncEnded /\ TrackerFaithful) => TextsOf(all_todos) \subseteq tasks
          /\ (TrackerFaithful /\ AllHeld) =>
                /\ \A i \in 1..Len(calls) : calls[i].cmd # "task add"
                /\ Summaries = <<>>
                /\ pc \in InCycle \cup {"sleep", "exited"} => synced = 0)
    /\ [][/\ tasks \subseteq tasks'
          /\ md_files' = md_files
          /\ (pc = "sleep" /\ pc' = "collect" /\ SyncEnded /\ TrackerFaithful) =>
                TextsOf(CollectTodos(md_files')) \subseteq tasks']_vars

\* A later pass checked two different descriptions, found both and is done.
C19_Witness ==
    /\ SyncEnded
    /\ TrackerFaithful
    /\ AllHeld
    /\ Len(all_todos) = 2
    /\ all_todos[1].text # all_todos[2].text
    /\ Len(SelectSeq(calls, IsTracker)) = 2

(***************************************************************************)
(* C20: no failure of the tracker tool takes the cycle to the backoff:     *)
(* after the probe, an existence check or a create the cycle goes on or    *)
(* ends in the interval sleep.  When the tracker binary goes missing in    *)
(* the middle of the pass, that command is the last of the cycle, the skip *)
(* is logged and no summary is sent, whatever was created before.          *)
(***************************************************************************)
C20_TrackerFailureNeverRaises ==
    /\ []((BinaryWentMissing /\ at = "none") =>
            /\ Returned
            /\ IsTracker(calls[Len(calls)])
            /\ calls[Len(calls)].result = "notfound"
            /\ Summaries = <<>>
            /\ LogCount(log, "TaskWarrior not available, skipping sync") = 1)
    /\ [][(pc \in {"probe", "sync_check", "sync_create"} /\ at' = "none") =>
                pc' \in {"sync_entry", "sync_check", "sync_create",
                         "sync_summary", "sleep"}]_vars

====
